---- MODULE Spec2Model ----
(***************************************************************************)
(* Patent prior-art search agent: the LangGraph stage graph                *)
(* (src/src/patent_search_agent/graph.py and nodes/), the interrupt/resume *)
(* point of human validation, and the Flask dispatcher (src/app.py) that   *)
(* starts and resumes sessions.                                            *)
(*                                                                         *)
(* Python values are modelled as tagged records so that an absent key,     *)
(* a pydantic object and a plain dict stay distinguishable:                *)
(*   keyword value   [py, keys, problem_purpose, object_system,            *)
(*                    environment_field]   py in None/SeedKeywords/dict    *)
(*   list item       [kind, s, l]           a str item or a nested list    *)
(* An absent key of the state dict is the None value of its field.         *)
(***************************************************************************)
EXTENDS Integers, Sequences, FiniteSets, TLC

\* ------------------------------------------------------------------ bounds
MaxSessions == 2      \* thread ids that start_search may hand out
MaxCalls == 3         \* HTTP requests served in one behaviour

\* ------------------------------------------------------------ value shapes
Categories == {"problem_purpose", "object_system", "environment_field"}

NoneKw ==
    [py |-> "None", keys |-> {}, problem_purpose |-> <<>>,
     object_system |-> <<>>, environment_field |-> <<>>]

\* SeedKeywords(problem_purpose=p, object_system=o, environment_field=e)
SeedKeywords(p, o, e) ==
    [py |-> "SeedKeywords", keys |-> Categories, problem_purpose |-> p,
     object_system |-> o, environment_field |-> e]

\* a plain dict whose keys are `ks`; a category outside `ks` holds <<>>
KwDict(ks, p, o, e) ==
    [py |-> "dict", keys |-> ks,
     problem_purpose |-> IF "problem_purpose" \in ks THEN p ELSE <<>>,
     object_system |-> IF "object_system" \in ks THEN o ELSE <<>>,
     environment_field |-> IF "environment_field" \in ks THEN e ELSE <<>>]

\* Python truthiness of a keyword value: None and {} are falsy, a pydantic
\* object is always truthy
Truthy(v) == v.py = "SeedKeywords" \/ (v.py = "dict" /\ v.keys # {})

\* d.get(cat, [])
DictGet(d, cat) == IF cat \in d.keys THEN d[cat] ELSE <<>>

StrItem(s) == [kind |-> "str", s |-> s, l |-> <<>>]
ListItem(l) == [kind |-> "list", s |-> "", l |-> l]
\* one term an EnhancedKeywords response returns in `field` for keyword k
TermItem(field, k) == [kind |-> field, s |-> k, l |-> <<>>]
IsStrItem(it) == it.kind # "list"

NoneCM == [py |-> "None", problem_purpose |-> <<>>, object_system |-> <<>>,
           environment_field |-> <<>>]
\* ConceptMatrix: three str fields, each modelled as its sequence of characters
ConceptMatrix(p, o, e) ==
    [py |-> "ConceptMatrix", problem_purpose |-> p, object_system |-> o,
     environment_field |-> e]

NoneList == [py |-> "None", v |-> <<>>]
PyList(v) == [py |-> "list", v |-> v]

NoneQueries == [py |-> "None", queries |-> <<>>]
SearchQueries(qs) == [py |-> "SearchQueries", queries |-> qs]

\* ------------------------------------------------- external collaborators
\* what the concept-extraction LLM call returns when it succeeds
LlmConceptMatrix == ConceptMatrix(<<"a", "b">>, <<"c">>, <<"d", "e">>)

\* what the keyword-generation LLM call may return when it succeeds
Seed1 == SeedKeywords(<<"p1", "p2", "p3">>, <<"o1", "o2", "o3">>,
                      <<"e1", "e2", "e3">>)
Seed2 == SeedKeywords(<<"p4", "p5", "p6">>, <<"o4", "o5", "o6">>,
                      <<"e4", "e5", "e6">>)
LlmSeeds == [s1 |-> Seed1, s2 |-> Seed2]

CeOutcomes == {"ok", "fail"}
KgOutcomes == {"s1", "s2", "fail"}
EnhOutcomes == {"ok", "fail"}
IpcOutcomes == {"api", "fallback"}
QgOutcomes == {"toolcall", "no_toolcall", "raise"}

Outcomes == [ce : CeOutcomes, kg : KgOutcomes, enh : EnhOutcomes,
             ipc : IpcOutcomes, qg : QgOutcomes]

\* ----------------------------------------------------------- PatentSearchState
\* the state dict threaded through the nodes; `errors` absent reads as []
InitialState(desc, maxr) ==
    [patent_description |-> desc, max_results |-> maxr, messages |-> <<>>,
     concept_matrix |-> NoneCM, seed_keywords |-> NoneKw,
     validated_keywords |-> NoneKw, enhanced_keywords |-> NoneKw,
     ipc_codes |-> NoneList, search_queries |-> NoneQueries,
     errors |-> <<>>]

\* what a node hands back to the graph
Update(st) == [kind |-> "update", state |-> st, goto |-> "", err |-> <<>>]
Goto(node, st) == [kind |-> "command", state |-> st, goto |-> node, err |-> <<>>]
Raise(st, e) == [kind |-> "raise", state |-> st, goto |-> "", err |-> e]
Interrupt(st) == [kind |-> "interrupt", state |-> st, goto |-> "", err |-> <<>>]


\* --------------------------------------------------------- small helpers
Min(a, b) == IF a < b THEN a ELSE b
Head10(l) == SubSeq(l, 1, Min(Len(l), 10))          \* l[:10]
IsPrefix(a, b) == Len(a) <= Len(b) /\ SubSeq(b, 1, Len(a)) = a

\* SeedKeywords field constraints
MinItems == 3
MaxItems == 6

\* ------------------------------------------------- concept_extraction_node
\* "invention_purpose", "technical_system", "technology_field" as characters
InventionPurpose ==
    <<"i", "n", "v", "e", "n", "t", "i", "o", "n", "_",
      "p", "u", "r", "p", "o", "s", "e">>
TechnicalSystem ==
    <<"t", "e", "c", "h", "n", "i", "c", "a", "l", "_",
      "s", "y", "s", "t", "e", "m">>
TechnologyField ==
    <<"t", "e", "c", "h", "n", "o", "l", "o", "g", "y", "_",
      "f", "i", "e", "l", "d">>

FallbackConceptExtraction(patent_description) ==
    ConceptMatrix(InventionPurpose, TechnicalSystem, TechnologyField)

\* faulty variant: the except branch records the error and no matrix
ConceptExtractionNodeNoFallback(st, o) ==
    IF o.ce = "ok"
    THEN Update([st EXCEPT !.concept_matrix = LlmConceptMatrix,
                           !.messages = Append(@, "concept_matrix")])
    ELSE Update([st EXCEPT
                 !.errors = Append(@, "Error in concept extraction")])

ConceptExtractionNode(st, o) ==
    IF o.ce = "ok"
    THEN Update([st EXCEPT !.concept_matrix = LlmConceptMatrix,
                           !.messages = Append(@, "concept_matrix")])
    ELSE Update([st EXCEPT
                 !.concept_matrix =
                     FallbackConceptExtraction(st.patent_description),
                 !.errors = Append(@, "Error in concept extraction")])

\* ------------------------------------------------- keyword_generation_node
\* for concept in <str>: append([f"fallback_keyword_{concept}"] * 3)
\* one nested list per character of the concept string; the character stands
\* for the keyword formatted from it
FallbackKeywordList(concept) ==
    [i \in 1..Len(concept) |-> ListItem(<<concept[i], concept[i], concept[i]>>)]

\* pydantic validation of one List[str] field with min_items/max_items
ValidKeywordField(l) ==
    /\ Len(l) >= MinItems
    /\ Len(l) <= MaxItems
    /\ \A i \in 1..Len(l) : IsStrItem(l[i])

StrOf(l) == [i \in 1..Len(l) |-> l[i].s]

\* returns [ok, value]: the SeedKeywords constructor raises ValidationError
\* when a field is not a list of 3..6 strings
FallbackKeywordGeneration(concept_matrix) ==
    LET p == Head10(FallbackKeywordList(concept_matrix.problem_purpose))
        ob == Head10(FallbackKeywordList(concept_matrix.object_system))
        e == Head10(FallbackKeywordList(concept_matrix.environment_field))
    IN  IF concept_matrix.py = "None"
        THEN [ok |-> FALSE, value |-> NoneKw, err |-> <<"AttributeError">>]
        ELSE IF ValidKeywordField(p) /\ ValidKeywordField(ob)
                /\ ValidKeywordField(e)
        THEN [ok |-> TRUE,
              value |-> SeedKeywords(StrOf(p), StrOf(ob), StrOf(e)),
              err |-> <<>>]
        ELSE [ok |-> FALSE, value |-> NoneKw, err |-> <<"ValidationError">>]

\* TRUE when the node reaches model.invoke (the keyword-generation operation)
KgOperationCalled(st) == st.concept_matrix.py # "None"

\* faulty variant: the structured output is never stored in seed_keywords
KeywordGenerationNodeDropsSeed(st, o) ==
    IF KgOperationCalled(st) /\ o.kg # "fail"
    THEN Update([st EXCEPT
                 !.messages = @ \o <<"Generating search keywords from concepts",
                                     "SeedKeywords">>])
    ELSE Raise(st, <<"ValidationError">>)

KeywordGenerationNode(st, o) ==
    IF KgOperationCalled(st) /\ o.kg # "fail"
    THEN Update([st EXCEPT
                 !.seed_keywords = LlmSeeds[o.kg],
                 !.messages = @ \o <<"Generating search keywords from concepts",
                                     "SeedKeywords">>])
    ELSE LET fb == FallbackKeywordGeneration(st.concept_matrix)
         IN  IF fb.ok
             THEN Update([st EXCEPT
                          !.seed_keywords = fb.value,
                          !.errors = Append(@, "Error in keyword generation")])
             ELSE Raise(st, fb.err)

\* --------------------------------------------------- human_validation_node
NoResume == [type |-> "", keywords |-> NoneKw]
ResumeValue(type, keywords) == [type |-> type, keywords |-> keywords]

\* faulty variant: accept keeps only the first category of the seed
ProcessHumanInputAcceptPartial(response, seed_keywords, st) ==
    CASE response.type = "accept" ->
           Goto("enhancement",
                [st EXCEPT
                 !.validated_keywords =
                     KwDict({"problem_purpose"},
                            seed_keywords.problem_purpose, <<>>, <<>>),
                 !.messages = Append(@, "User accepted keywords.")])
      [] response.type = "edit" ->
           Goto("enhancement",
                [st EXCEPT
                 !.validated_keywords = response.keywords,
                 !.messages = Append(@, "User edited keywords.")])
      [] response.type = "reject" ->
           Goto("keyword_generation",
                [st EXCEPT !.messages = Append(@, "User rejected keywords.")])
      [] OTHER ->
           Raise(st, <<"Unknown response type: ", response.type>>)

\* faulty variant: a reject also discards the seed keywords it rejects
ProcessHumanInputRejectClearsSeed(response, seed_keywords, st) ==
    CASE response.type = "accept" ->
           Goto("enhancement",
                [st EXCEPT
                 !.validated_keywords =
                     KwDict(Categories, seed_keywords.problem_purpose,
                            seed_keywords.object_system,
                            seed_keywords.environment_field),
                 !.messages = Append(@, "User accepted keywords.")])
      [] response.type = "edit" ->
           Goto("enhancement",
                [st EXCEPT
                 !.validated_keywords = response.keywords,
                 !.messages = Append(@, "User edited keywords.")])
      [] response.type = "reject" ->
           Goto("keyword_generation",
                [st EXCEPT !.seed_keywords = NoneKw,
                           !.messages = Append(@, "User rejected keywords.")])
      [] OTHER ->
           Raise(st, <<"Unknown response type: ", response.type>>)

ProcessHumanInput(response, seed_keywords, st) ==
    CASE response.type = "accept" ->
           Goto("enhancement",
                [st EXCEPT
                 !.validated_keywords =
                     KwDict(Categories, seed_keywords.problem_purpose,
                            seed_keywords.object_system,
                            seed_keywords.environment_field),
                 !.messages = Append(@, "User accepted keywords.")])
      [] response.type = "edit" ->
           Goto("enhancement",
                [st EXCEPT
                 !.validated_keywords = response.keywords,
                 !.messages = Append(@, "User edited keywords.")])
      [] response.type = "reject" ->
           Goto("keyword_generation",
                [st EXCEPT !.messages = Append(@, "User rejected keywords.")])
      [] OTHER ->
           Raise(st, <<"Unknown response type: ", response.type>>)

\* faulty variant: the node does not wait for the human and accepts
HumanValidationNodeNoInterrupt(st, resume) ==
    IF ~Truthy(st.seed_keywords)
    THEN Update([st EXCEPT
                 !.errors = Append(@, "No seed keywords found for validation"),
                 !.validated_keywords = KwDict({}, <<>>, <<>>, <<>>)])
    ELSE IF resume = NoResume
    THEN ProcessHumanInput([type |-> "accept", keywords |-> NoneKw],
                           st.seed_keywords, st)
    ELSE ProcessHumanInput(resume, st.seed_keywords, st)

HumanValidationNode(st, resume) ==
    IF ~Truthy(st.seed_keywords)
    THEN Update([st EXCEPT
                 !.errors = Append(@, "No seed keywords found for validation"),
                 !.validated_keywords = KwDict({}, <<>>, <<>>, <<>>)])
    ELSE IF resume = NoResume
    THEN Interrupt(st)
    ELSE ProcessHumanInput(resume, st.seed_keywords, st)


\* -------------------------------------------------------- enhancement_node
EnhancedFields ==
    <<"synonyms", "related_terms", "patent_terminology",
      "technical_variations">>

\* the items the loop extends one category with: for every keyword, in order,
\* the four lists of its EnhancedKeywords response (one term each)
EnhancedTerms(keywords) ==
    [j \in 1..(Len(EnhancedFields) * Len(keywords)) |->
        TermItem(EnhancedFields[((j - 1) % Len(EnhancedFields)) + 1],
                 keywords[((j - 1) \div Len(EnhancedFields)) + 1])]

\* enhanced_keywords[category] = [validated_keywords.get(category, [])],
\* then extended for each keyword of validated_keywords.items()
EnhancedCategory(validated_keywords, cat) ==
    <<ListItem(DictGet(validated_keywords, cat))>>
        \o EnhancedTerms(DictGet(validated_keywords, cat))

\* _fallback_enhancement returns its argument
FallbackEnhancement(validated_keywords) == validated_keywords

\* state.get("validated_keywords", {})
ValidatedOrEmpty(st) ==
    IF st.validated_keywords.py = "None"
    THEN KwDict({}, <<>>, <<>>, <<>>)
    ELSE st.validated_keywords

\* TRUE when the loop makes at least one get_synonyms_context / LLM call
EnhOperationCalled(validated_keywords) ==
    \E cat \in validated_keywords.keys : Len(validated_keywords[cat]) > 0

EnhancementNode(st, o) ==
    LET validated_keywords == ValidatedOrEmpty(st)
    IN  IF validated_keywords.py # "dict"
           \/ (o.enh = "fail" /\ EnhOperationCalled(validated_keywords))
        THEN \* except branch: fallback_result["enhanced"]
             LET fallback_result == FallbackEnhancement(validated_keywords)
             IN  IF "enhanced" \in fallback_result.keys
                 THEN Update([st EXCEPT
                              !.enhanced_keywords = fallback_result,
                              !.errors = Append(@, "Enhancement error")])
                 ELSE Raise(st, <<"KeyError: ", "enhanced">>)
        ELSE Update([st EXCEPT !.enhanced_keywords =
                 [py |-> "dict", keys |-> Categories,
                  problem_purpose |->
                      EnhancedCategory(validated_keywords, "problem_purpose"),
                  object_system |->
                      EnhancedCategory(validated_keywords, "object_system"),
                  environment_field |->
                      EnhancedCategory(validated_keywords,
                                       "environment_field")]])

\* ------------------------------------------------- ipc_classification_node
\* codes the IPCCAT service predicts above the score threshold
ApiIpcCodes == <<"G06F3/01">>

\* codes of the keyword table whose keywords occur in the summary, best
\* first; the text "d1" contains none of the table's keywords
ScoredIpcCodes(patent_summary) ==
    IF patent_summary = "d1" THEN <<>> ELSE <<"G01D", "A61B">>

\* faulty variant: no default code when no keyword of the table matches
FallbackIpcClassificationNoDefault(patent_summary) ==
    ScoredIpcCodes(patent_summary)

FallbackIpcClassification(patent_summary) ==
    LET result_codes == ScoredIpcCodes(patent_summary)
    IN  IF result_codes = <<>> THEN <<"G06F">> ELSE result_codes

GetIpcClassification(patent_summary, o) ==
    IF o.ipc = "api" /\ ApiIpcCodes # <<>>
    THEN ApiIpcCodes
    ELSE FallbackIpcClassification(patent_summary)

\* faulty variant: the summary is stored in place of the description
IpcClassificationNodeStoresSummary(st, o) ==
    Update([st EXCEPT
            !.patent_description = "summary",
            !.ipc_codes = PyList(GetIpcClassification(st.patent_description, o)),
            !.messages = Append(@, "Generated IPC classification")])

IpcClassificationNode(st, o) ==
    Update([st EXCEPT
            !.ipc_codes = PyList(GetIpcClassification(st.patent_description, o)),
            !.messages = Append(@, "Generated IPC classification")])

\* --------------------------------------------------- query_generation_node
\* ', '.join(keywords) raises TypeError unless every item is a str
JoinOk(keywords) == \A i \in 1..Len(keywords) : IsStrItem(keywords[i])

\* _format_keywords_data: TRUE when it returns without raising
FormatKeywordsDataOk(keywords_data) ==
    /\ keywords_data.py = "dict"
    /\ \A cat \in keywords_data.keys :
          Len(keywords_data[cat]) > 0 => JoinOk(keywords_data[cat])

LlmQueries == <<"q1", "q2", "q3", "q4", "q5">>

\* faulty variant: the except branch returns its own error alone
QueryGenerationNodeOverwritesErrors(st, o) ==
    IF /\ FormatKeywordsDataOk(st.enhanced_keywords)
       /\ st.ipc_codes.py = "list"
       /\ o.qg = "toolcall"
    THEN Update([st EXCEPT
                 !.search_queries = SearchQueries(LlmQueries),
                 !.messages = @ \o <<"AIMessage", "ToolMessage">>])
    ELSE Update([st EXCEPT
                 !.errors = <<"Error in query generation">>])

\* faulty variant: without a tool call the empty placeholder is returned
QueryGenerationNodePlaceholder(st, o) ==
    IF /\ FormatKeywordsDataOk(st.enhanced_keywords)
       /\ st.ipc_codes.py = "list"
       /\ o.qg # "raise"
    THEN Update([st EXCEPT
                 !.search_queries =
                     IF o.qg = "toolcall" THEN SearchQueries(LlmQueries)
                     ELSE [py |-> "str", queries |-> <<>>],
                 !.messages = @ \o <<"AIMessage", "ToolMessage">>])
    ELSE Update([st EXCEPT
                 !.errors = Append(@, "Error in query generation")])

QueryGenerationNode(st, o) ==
    IF /\ FormatKeywordsDataOk(st.enhanced_keywords)
       /\ st.ipc_codes.py = "list"
       /\ o.qg = "toolcall"
    THEN Update([st EXCEPT
                 !.search_queries = SearchQueries(LlmQueries),
                 !.messages = @ \o <<"AIMessage", "ToolMessage">>])
    ELSE \* TypeError of join, the LLM call raising, or tool_message unbound
         Update([st EXCEPT
                 !.errors = Append(@, "Error in query generation")])

\* ------------------------------------------------------------ create_graph
\* faulty variant: the channel keeps only the entries the step added
AddMessagesNewOnly(left, right) ==
    IF IsPrefix(left, right)
    THEN SubSeq(right, Len(left) + 1, Len(right))
    ELSE right

\* add_messages: entries already in the channel keep their place, new ones
\* are appended
AddMessages(left, right) ==
    IF IsPrefix(left, right) THEN right ELSE left \o right

\* channel update of one step: last value wins, messages through add_messages
ApplyWrites(st, update) ==
    [update EXCEPT !.messages = AddMessages(st.messages, update.messages)]

\* faulty variant: keyword_generation is wired straight to enhancement
StaticEdgeSkipsValidation(node) ==
    CASE node = "concept_extraction" -> "keyword_generation"
      [] node = "keyword_generation" -> "enhancement"
      [] node = "enhancement" -> "ipc_classification"
      [] node = "ipc_classification" -> "query_generation"
      [] OTHER -> "__end__"

\* workflow.add_edge(node, ...): the static successor; human_validation has
\* none (its conditional edges are commented out)
StaticEdge(node) ==
    CASE node = "concept_extraction" -> "keyword_generation"
      [] node = "keyword_generation" -> "human_validation"
      [] node = "enhancement" -> "ipc_classification"
      [] node = "ipc_classification" -> "query_generation"
      [] node = "query_generation" -> "__end__"
      [] OTHER -> "__end__"

RunNode(node, st, resume, o) ==
    CASE node = "concept_extraction" -> ConceptExtractionNode(st, o)
      [] node = "keyword_generation" -> KeywordGenerationNode(st, o)
      [] node = "human_validation" -> HumanValidationNode(st, resume)
      [] node = "enhancement" -> EnhancementNode(st, o)
      [] node = "ipc_classification" -> IpcClassificationNode(st, o)
      [] OTHER -> QueryGenerationNode(st, o)

\* the external operations a node calls, for the call counters
OpsCalled(node, st) ==
    CASE node = "concept_extraction" -> <<"concept_extraction">>
      [] node = "keyword_generation" /\ KgOperationCalled(st) ->
             <<"keyword_generation">>
      [] OTHER -> <<>>

\* app.invoke from `node`: run nodes one step at a time until the graph ends,
\* a node raises, or human_validation interrupts. The resume value is seen by
\* the first step only. A raising or interrupting step writes nothing, and
\* the checkpoint keeps that node as the next one to run. messages_kept and
\* errors_kept tell whether every step of the run left the channel's former
\* content as a prefix of its new content; hv_steps holds, for every step in
\* which human_validation resolved a resume value, the state before the step
\* and the state after its writes.
RECURSIVE Pregel(_, _, _, _, _, _)
Pregel(node, st, resume, o, stages, ops) ==
    IF node = "__end__"
    THEN [values |-> st, next |-> "__end__", status |-> "done",
          stages |-> stages, ops |-> ops, err |-> <<>>,
          messages_kept |-> TRUE, errors_kept |-> TRUE,
          hv_steps |-> <<>>]
    ELSE LET r == RunNode(node, st, resume, o)
             stages2 == Append(stages, node)
             ops2 == ops \o OpsCalled(node, st)
         IN  CASE r.kind = "raise" ->
                    [values |-> st, next |-> node, status |-> "raised",
                     stages |-> stages2, ops |-> ops2, err |-> r.err,
                     messages_kept |-> TRUE, errors_kept |-> TRUE,
                     hv_steps |-> <<>>]
               [] r.kind = "interrupt" ->
                    [values |-> st, next |-> node, status |-> "interrupted",
                     stages |-> stages2, ops |-> ops2, err |-> <<>>,
                     messages_kept |-> TRUE, errors_kept |-> TRUE,
                     hv_steps |-> <<>>]
               [] OTHER ->
                    LET written == ApplyWrites(st, r.state)
                        goto == IF r.kind = "command" THEN r.goto
                                ELSE StaticEdge(node)
                        rest == Pregel(goto, written, NoResume, o,
                                       stages2, ops2)
                    IN  [rest EXCEPT
                         !.messages_kept =
                             @ /\ IsPrefix(st.messages, written.messages),
                         !.errors_kept =
                             @ /\ IsPrefix(st.errors, written.errors),
                         !.hv_steps =
                             IF /\ node = "human_validation"
                                /\ resume # NoResume
                                /\ r.kind = "command"
                             THEN <<[before |-> st, after |-> written,
                                     goto |-> goto]>> \o @
                             ELSE @]


\* ================================================================== state
VARIABLES
    active_sessions,  \* app.py: thread id -> session entry (ids are 1, 2, ..)
    checkpoints,      \* the graph's InMemorySaver: thread id -> checkpoint
    history,          \* per thread: stages run, operation calls, resolutions
    request,          \* the HTTP request served by the latest step
    response,         \* the HTTP response it got
    served,           \* number of requests served
    in_flight,        \* validate_keywords calls that entered the graph and
                      \* have not stored their result yet
    graph_app,        \* app.py: the module global, 0 while it is None, else
                      \* the number of the graph instance it refers to
    savers,           \* per graph instance: the thread ids whose checkpoint
                      \* its InMemorySaver holds
    callers,          \* per server thread: its position in get_graph()
    routed            \* the latest call of a routing function and its result

vars == <<active_sessions, checkpoints, history, request, response, served,
          in_flight, graph_app, savers, callers, routed>>

\* server threads that may be inside get_graph() at the same time
Workers == {1, 2}
Idle == [pc |-> "idle", app_instance |-> 0]

NoRoute == [fn |-> "", state |-> <<>>, result |-> ""]

\* get_graph() run without interruption: the instance it returns, and the
\* global and the savers it leaves behind
GetGraph ==
    IF graph_app = 0
    THEN [app_instance |-> Len(savers) + 1, graph_app |-> Len(savers) + 1,
          savers |-> Append(savers, {})]
    ELSE [app_instance |-> graph_app, graph_app |-> graph_app,
          savers |-> savers]

\* every thread id a request can name: 0 is a missing id, MaxSessions + 1 one
\* that start_search never handed out
ThreadIds == 1..(MaxSessions + 1)
RequestIds == 0..(MaxSessions + 1)

NoCheckpoint ==
    [values |-> InitialState("", 0), next |-> "__start__", status |-> "none"]

\* the checkpoint the graph instance `app_instance` holds for a thread
HoldsCheckpoint(app_instance, thread_id) ==
    /\ app_instance \in DOMAIN savers
    /\ thread_id \in savers[app_instance]

GetCheckpoint(app_instance, thread_id) ==
    IF HoldsCheckpoint(app_instance, thread_id)
    THEN checkpoints[thread_id]
    ELSE NoCheckpoint

NoHistory ==
    [stages |-> <<>>, ce_calls |-> 0, kg_calls |-> 0, resolved |-> <<>>,
     messages_kept |-> TRUE, errors_kept |-> TRUE,
     hv_steps |-> <<>>]

NoCurrentState == [py |-> "None", values |-> InitialState("", 0)]
CurrentState(values) == [py |-> "dict", values |-> values]

NoRequest ==
    [kind |-> "none", thread_id |-> 0, action |-> "", keywords |-> NoneKw,
     patent_description |-> ""]

Response(code, status, error, thread_id, seed_keywords) ==
    [code |-> code, status |-> status, error |-> error,
     thread_id |-> thread_id, seed_keywords |-> seed_keywords]

NoResponse == Response(0, "", <<>>, 0, NoneKw)

\* request inputs
RawDescriptions == {"", " d1 "}
Strip(raw) == IF raw = " d1 " THEN "d1" ELSE raw
MaxResultsInputs == {10}
Actions == {"accept", "edit", "reject", "bogus"}
EmptyDict == KwDict({}, <<>>, <<>>, <<>>)
EditPayloads ==
    { EmptyDict,
      KwDict({"problem_purpose"}, <<"x">>, <<>>, <<>>),
      KwDict(Categories, <<"x1", "x2">>, <<"y1">>, <<"z1">>) }

Count(seq, x) == Cardinality({i \in 1..Len(seq) : seq[i] = x})

\* seed_keywords.dict()
AsDict(kw) ==
    KwDict(Categories, kw.problem_purpose, kw.object_system,
           kw.environment_field)

\* flask.jsonify raises TypeError on a pydantic object
JsonSerializable(kw) == kw.py # "SeedKeywords"

\* result.get(key) is truthy; a key that is no channel of the state is absent
ResultHas(values, key) ==
    /\ key \in DOMAIN values
    /\ values[key].py # "None"

Init ==
    /\ active_sessions = <<>>
    /\ checkpoints = [t \in ThreadIds |-> NoCheckpoint]
    /\ history = [t \in ThreadIds |-> NoHistory]
    /\ request = NoRequest
    /\ response = NoResponse
    /\ served = 0
    /\ in_flight = {}
    /\ graph_app = 0
    /\ savers = <<>>
    /\ callers = [w \in Workers |-> Idle]
    /\ routed = NoRoute

Record(h, run, resolved) ==
    [stages |-> h.stages \o run.stages,
     ce_calls |-> h.ce_calls + Count(run.ops, "concept_extraction"),
     kg_calls |-> h.kg_calls + Count(run.ops, "keyword_generation"),
     resolved |-> h.resolved \o resolved,
     messages_kept |-> h.messages_kept /\ run.messages_kept,
     hv_steps |-> h.hv_steps \o run.hv_steps,
     errors_kept |-> h.errors_kept /\ run.errors_kept]

Checkpoint(run) ==
    [values |-> run.values, next |-> run.next, status |-> run.status]

\* ------------------------------------------------------ app.start_search
NewSession(patent_description, max_results) ==
    [patent_description |-> patent_description, max_results |-> max_results,
     current_state |-> NoCurrentState, workflow_complete |-> FALSE]

StartResponse(thread_id, run) ==
    IF run.status = "raised"
    THEN Response(500, "", <<"Graph execution failed: ">> \o run.err, 0, NoneKw)
    ELSE IF Truthy(run.values.seed_keywords)
    THEN Response(200, "waiting_validation", <<>>, thread_id,
                  AsDict(run.values.seed_keywords))
    ELSE Response(500, "", <<"Failed to extract keywords">>, 0, NoneKw)

\* start_search with `g` what its get_graph() call returns and leaves behind
StartSearchOn(g, raw, max_results, o) ==
    LET patent_description == Strip(raw)
        thread_id == Len(active_sessions) + 1
        run == Pregel("concept_extraction",
                      InitialState(patent_description, max_results),
                      NoResume, o, <<>>, <<>>)
    IN  /\ served < MaxCalls
        /\ served' = served + 1
        /\ UNCHANGED <<in_flight, routed>>
        /\ request' = [NoRequest EXCEPT !.kind = "start",
                                        !.patent_description = raw]
        /\ IF patent_description = ""
           THEN /\ response' = Response(400, "",
                                   <<"Patent description is required">>,
                                   0, NoneKw)
                /\ UNCHANGED <<active_sessions, checkpoints, history,
                               graph_app, savers>>
           ELSE /\ Len(active_sessions) < MaxSessions
                /\ graph_app' = g.graph_app
                /\ savers' = [g.savers EXCEPT ![g.app_instance] =
                                  @ \cup {thread_id}]
                /\ active_sessions' =
                       Append(active_sessions,
                              [NewSession(patent_description, max_results)
                               EXCEPT !.current_state =
                                   IF run.status = "raised"
                                   THEN NoCurrentState
                                   ELSE CurrentState(run.values)])
                /\ checkpoints' =
                       [checkpoints EXCEPT ![thread_id] = Checkpoint(run)]
                /\ history' =
                       [history EXCEPT ![thread_id] = Record(@, run, <<>>)]
                /\ response' = StartResponse(thread_id, run)

StartSearch(raw, max_results, o) ==
    /\ StartSearchOn(GetGraph, raw, max_results, o)
    /\ UNCHANGED callers

\* -------------------------------------------------- app.validate_keywords
\* faulty variant: only a missing id is refused
InvalidSessionMissingOnly(thread_id, sessions) ==
    thread_id = 0

\* not thread_id or thread_id not in active_sessions
InvalidSession(thread_id, sessions) ==
    thread_id = 0 \/ thread_id \notin DOMAIN sessions

InvalidAction(action) == action \notin {"accept", "reject", "edit"}

\* app_instance.invoke(Command(resume=...), config): continue the thread from
\* its checkpoint. A thread that finished, or has no checkpoint, has no step
\* to run and the stored values come back.
InvokeResume(cp, resume, o) ==
    IF cp.status \in {"interrupted", "raised"}
    THEN Pregel(cp.next, cp.values, resume, o, <<>>, <<>>)
    ELSE [values |-> cp.values, next |-> cp.next, status |-> cp.status,
          stages |-> <<>>, ops |-> <<>>, err |-> <<>>,
          messages_kept |-> TRUE, errors_kept |-> TRUE,
          hv_steps |-> <<>>]

\* the resume value reached _process_human_input and was resolved
Resolved(cp, run, action) ==
    IF /\ cp.status = "interrupted"
       /\ cp.next = "human_validation"
       /\ ~(run.status = "raised" /\ run.next = "human_validation")
    THEN <<action>>
    ELSE <<>>

WorkflowComplete(values) ==
    ResultHas(values, "final_queries") \/ ResultHas(values, "search_results")

ValidateResponse(run) ==
    IF run.status = "raised"
    THEN Response(500, "", run.err, 0, NoneKw)
    ELSE IF ~JsonSerializable(run.values.seed_keywords)
    THEN Response(500, "",
                  <<"Object of type SeedKeywords is not JSON serializable">>,
                  0, NoneKw)
    ELSE IF WorkflowComplete(run.values)
    THEN Response(200, "complete", <<>>, 0, run.values.seed_keywords)
    ELSE Response(200, "waiting_validation", <<>>, 0,
                  run.values.seed_keywords)

\* faulty variant: the checkpoint is stored without regard to the thread id
ResumeWritesAnyThread(thread_id, action, cp, run) ==
    /\ checkpoints' =
           [t \in ThreadIds |->
               IF t \in DOMAIN active_sessions THEN Checkpoint(run)
               ELSE checkpoints[t]]
    /\ history' =
           [history EXCEPT ![thread_id] =
               Record(@, run, Resolved(cp, run, action))]
    /\ active_sessions' =
           IF run.status = "raised"
              \/ thread_id \notin DOMAIN active_sessions
           THEN active_sessions
           ELSE [active_sessions EXCEPT ![thread_id] =
                   [@ EXCEPT
                    !.current_state = CurrentState(run.values),
                    !.workflow_complete =
                        @ \/ WorkflowComplete(run.values)]]
    /\ response' =
           IF run.status # "raised"
              /\ thread_id \notin DOMAIN active_sessions
           THEN Response(500, "", <<"KeyError">>, 0, NoneKw)
           ELSE ValidateResponse(run)

\* what validate_keywords stores and answers once the graph run `run`,
\* started from checkpoint cp, has come back
ResumeWrites(thread_id, action, cp, run) ==
    /\ checkpoints' =
           IF HoldsCheckpoint(graph_app, thread_id)
           THEN [checkpoints EXCEPT ![thread_id] = Checkpoint(run)]
           ELSE checkpoints
    /\ history' =
           [history EXCEPT ![thread_id] =
               Record(@, run, Resolved(cp, run, action))]
    /\ active_sessions' =
           IF run.status = "raised"
              \/ thread_id \notin DOMAIN active_sessions
           THEN active_sessions
           ELSE [active_sessions EXCEPT ![thread_id] =
                   [@ EXCEPT
                    !.current_state = CurrentState(run.values),
                    !.workflow_complete =
                        @ \/ WorkflowComplete(run.values)]]
    /\ response' =
           IF run.status # "raised"
              /\ thread_id \notin DOMAIN active_sessions
           THEN \* active_sessions[thread_id] raises KeyError
                Response(500, "", <<"KeyError">>, 0, NoneKw)
           ELSE ValidateResponse(run)

ValidateKeywords(thread_id, action, keywords, o) ==
    /\ served < MaxCalls
    /\ served' = served + 1
    /\ UNCHANGED <<in_flight, graph_app, savers, callers, routed>>
    /\ request' = [NoRequest EXCEPT !.kind = "resume",
                                    !.thread_id = thread_id,
                                    !.action = action,
                                    !.keywords = keywords]
    /\ IF InvalidSession(thread_id, active_sessions)
       THEN /\ response' = Response(400, "", <<"Invalid session">>, 0, NoneKw)
            /\ UNCHANGED <<active_sessions, checkpoints, history>>
       ELSE IF InvalidAction(action)
       THEN /\ response' = Response(400, "", <<"Invalid action">>, 0, NoneKw)
            /\ UNCHANGED <<active_sessions, checkpoints, history>>
       ELSE LET cp == GetCheckpoint(graph_app, thread_id)
                run == InvokeResume(cp, ResumeValue(action, keywords), o)
            IN  ResumeWrites(thread_id, action, cp, run)

\* ------------------------------------------------------------------- next
Start ==
    \E raw \in RawDescriptions, max_results \in MaxResultsInputs,
       ce \in CeOutcomes, kg \in KgOutcomes :
        StartSearch(raw, max_results,
                    [ce |-> ce, kg |-> kg, enh |-> "ok", ipc |-> "api",
                     qg |-> "toolcall"])

\* the outcomes of the external operations that the stages a resume can reach
\* will consult; the others are fixed, since no stage reads them
ResumeOutcomes(thread_id, action) ==
    LET cp == checkpoints[thread_id]
        regenerates ==
            \/ cp.next = "keyword_generation"
            \/ (cp.next = "human_validation" /\ action = "reject")
    IN  IF \/ InvalidSession(thread_id, active_sessions)
           \/ InvalidAction(action)
           \/ cp.status \notin {"interrupted", "raised"}
        THEN {[ce |-> "ok", kg |-> "s1", enh |-> "ok", ipc |-> "api",
               qg |-> "toolcall"]}
        ELSE IF regenerates
        THEN {o \in Outcomes : o.ce = "ok" /\ o.enh = "ok" /\ o.ipc = "api"
                               /\ o.qg = "toolcall"}
        ELSE {o \in Outcomes : o.ce = "ok" /\ o.kg = "s1"}

Resume ==
    \E thread_id \in RequestIds, action \in Actions :
        \E keywords \in IF action = "edit"
                             /\ ~InvalidSession(thread_id, active_sessions)
                          THEN EditPayloads ELSE {EmptyDict},
           o \in ResumeOutcomes(thread_id, action) :
            ValidateKeywords(thread_id, action, keywords, o)

Next == Start \/ Resume

Spec == Init /\ [][Next]_vars


\* ------------------------------------------- human validation on any input
\* A second specification for what human_validation_node does on every state
\* it can be handed, a state without seed_keywords included. One session is
\* in the middle of start_search: concept extraction and keyword generation
\* have run and the graph is about to enter human_validation.
HvEntryStates ==
    { [ce EXCEPT
         !.seed_keywords = seed,
         !.messages = IF seed = NoneKw THEN @
                      ELSE @ \o <<"Generating search keywords from concepts",
                                  "SeedKeywords">>,
         !.errors = @ \o errs] :
        ce \in {ConceptExtractionNode(InitialState("d1", 10), o).state :
                   o \in Outcomes},
        seed \in {NoneKw, Seed1, Seed2},
        errs \in {<<>>, <<"Error in keyword generation">>} }

InitHV ==
    /\ active_sessions = <<NewSession("d1", 10)>>
    /\ \E st \in HvEntryStates :
          checkpoints =
              [t \in ThreadIds |->
                  IF t = 1
                  THEN [values |-> st, next |-> "human_validation",
                        status |-> "pending"]
                  ELSE NoCheckpoint]
    /\ history = [t \in ThreadIds |->
                    IF t = 1
                    THEN [NoHistory EXCEPT
                            !.stages = <<"concept_extraction",
                                         "keyword_generation">>,
                            !.ce_calls = 1, !.kg_calls = 1]
                    ELSE NoHistory]
    /\ request = [NoRequest EXCEPT !.kind = "start",
                                   !.patent_description = " d1 "]
    /\ response = NoResponse
    /\ served = 0
    /\ in_flight = {}
    /\ graph_app = 1
    /\ savers = <<{1}>>
    /\ callers = [w \in Workers |-> Idle]
    /\ routed = NoRoute

\* the rest of start_search for that session: the graph runs on from
\* human_validation and the handler stores the result and answers
EnterHumanValidation(o) ==
    LET thread_id == 1
        run == Pregel("human_validation", checkpoints[thread_id].values,
                      NoResume, o, <<>>, <<>>)
    IN  /\ checkpoints[thread_id].status = "pending"
        /\ served' = served + 1
        /\ UNCHANGED <<in_flight, graph_app, savers, callers, routed>>
        /\ request' = [request EXCEPT !.thread_id = thread_id]
        /\ active_sessions' =
               [active_sessions EXCEPT ![thread_id].current_state =
                   IF run.status = "raised" THEN NoCurrentState
                   ELSE CurrentState(run.values)]
        /\ checkpoints' = [checkpoints EXCEPT ![thread_id] = Checkpoint(run)]
        /\ history' = [history EXCEPT ![thread_id] = Record(@, run, <<>>)]
        /\ response' = StartResponse(thread_id, run)

EnterHV ==
    \E o \in {oc \in Outcomes : oc.ce = "ok" /\ oc.kg = "s1"} :
        EnterHumanValidation(o)

ResumeHV == checkpoints[1].status # "pending" /\ Resume

NextHV == EnterHV \/ ResumeHV

SpecHV == InitHV /\ [][NextHV]_vars


\* ------------------------------------------- query generation on any input
\* A third specification for what query_generation_node does on every state
\* it can be handed. One session is in the middle of validate_keywords: the
\* human accepted, enhancement and ipc_classification have run and the graph
\* is about to enter query_generation. enhanced_keywords is what
\* enhancement_node builds, or a dict of plain str lists (or an empty dict)
\* such as the except branch of enhancement_node takes from an edit payload
\* that carries an "enhanced" key.
FlatEnhanced ==
    { [py |-> "dict", keys |-> {}, problem_purpose |-> <<>>,
       object_system |-> <<>>, environment_field |-> <<>>],
      [py |-> "dict", keys |-> Categories,
       problem_purpose |-> <<StrItem("x1"), StrItem("x2")>>,
       object_system |-> <<StrItem("y1")>>,
       environment_field |-> <<>>] }

\* the state enhancement_node returns in a run with outcomes o
EnhancedBy(o) ==
    EnhancementNode(
        ProcessHumanInput(
            ResumeValue("accept", NoneKw),
            LlmSeeds[o.kg],
            KeywordGenerationNode(
                ConceptExtractionNode(InitialState("d1", 10), o).state,
                o).state).state,
        o)

QgEntryStates ==
    { IpcClassificationNode(
          [EnhancedBy(o).state EXCEPT
             !.enhanced_keywords = IF enh = NoneKw THEN @ ELSE enh],
          o).state :
        o \in {oc \in Outcomes : oc.kg # "fail" /\ oc.enh = "ok"
                                 /\ oc.qg = "toolcall"},
        enh \in FlatEnhanced \cup {NoneKw} }

\* the state of that session when it was suspended at human_validation
SuspendedBefore(st) ==
    [st EXCEPT !.validated_keywords = NoneKw,
               !.enhanced_keywords = NoneKw,
               !.ipc_codes = NoneList,
               !.messages = SubSeq(@, 1, Len(@) - 2)]

InitQG ==
    /\ \E st \in QgEntryStates :
          /\ checkpoints =
                [t \in ThreadIds |->
                    IF t = 1
                    THEN [values |-> st, next |-> "query_generation",
                          status |-> "pending"]
                    ELSE NoCheckpoint]
          /\ active_sessions =
                <<[NewSession("d1", 10) EXCEPT
                     !.current_state = CurrentState(SuspendedBefore(st))]>>
          /\ history =
                [t \in ThreadIds |->
                    IF t = 1
                    THEN [stages |-> <<"concept_extraction",
                                       "keyword_generation",
                                       "human_validation",
                                       "human_validation", "enhancement",
                                       "ipc_classification">>,
                          ce_calls |-> 1, kg_calls |-> 1,
                          resolved |-> <<"accept">>,
                          messages_kept |-> TRUE, errors_kept |-> TRUE,
                          hv_steps |->
                              <<[before |-> SuspendedBefore(st),
                                 after |->
                                     [SuspendedBefore(st) EXCEPT
                                        !.validated_keywords =
                                            st.validated_keywords,
                                        !.messages =
                                            Append(@, "User accepted keywords.")],
                                 goto |-> "enhancement"]>>]
                    ELSE NoHistory]
    /\ request = [NoRequest EXCEPT !.kind = "resume", !.thread_id = 1,
                                   !.action = "accept",
                                   !.keywords = EmptyDict]
    /\ response = NoResponse
    /\ served = 0
    /\ in_flight = {}
    /\ graph_app = 1
    /\ savers = <<{1}>>
    /\ callers = [w \in Workers |-> Idle]
    /\ routed = NoRoute

\* the rest of validate_keywords for that session: the graph runs on from
\* query_generation and the handler stores the result and answers
EnterQueryGeneration(o) ==
    LET thread_id == 1
        run == Pregel("query_generation", checkpoints[thread_id].values,
                      NoResume, o, <<>>, <<>>)
    IN  /\ checkpoints[thread_id].status = "pending"
        /\ served' = served + 1
        /\ UNCHANGED <<in_flight, graph_app, savers, callers, routed>>
        /\ request' = request
        /\ checkpoints' = [checkpoints EXCEPT ![thread_id] = Checkpoint(run)]
        /\ history' = [history EXCEPT ![thread_id] = Record(@, run, <<>>)]
        /\ active_sessions' =
               IF run.status = "raised" THEN active_sessions
               ELSE [active_sessions EXCEPT ![thread_id] =
                       [@ EXCEPT
                        !.current_state = CurrentState(run.values),
                        !.workflow_complete =
                            @ \/ WorkflowComplete(run.values)]]
        /\ response' = ValidateResponse(run)

EnterQG ==
    \E o \in {oc \in Outcomes : oc.ce = "ok" /\ oc.kg = "s1"
                                /\ oc.enh = "ok" /\ oc.ipc = "api"} :
        EnterQueryGeneration(o)

ResumeQG == checkpoints[1].status # "pending" /\ Resume

NextQG == EnterQG \/ ResumeQG

SpecQG == InitQG /\ [][NextQG]_vars


\* ----------------------------------------------- overlapping resume calls
\* A fourth specification in which validate_keywords is not atomic: Flask's
\* server handles each request in a thread of its own and neither the
\* handler nor the graph takes a lock, so a call that has passed the checks
\* and entered app_instance.invoke (the graph reads the thread's checkpoint)
\* can be overtaken by another call before it stores its result.
InFlightCall(call, thread_id, action, keywords, cp) ==
    [call |-> call, thread_id |-> thread_id, action |-> action,
     keywords |-> keywords, cp |-> cp]

\* validate_keywords up to the graph having loaded the checkpoint
BeginValidateKeywords(thread_id, action, keywords) ==
    /\ served < MaxCalls
    /\ served' = served + 1
    /\ request' = [NoRequest EXCEPT !.kind = "resume",
                                    !.thread_id = thread_id,
                                    !.action = action,
                                    !.keywords = keywords]
    /\ UNCHANGED <<active_sessions, checkpoints, history>>
    /\ UNCHANGED <<graph_app, savers, callers, routed>>
    /\ IF InvalidSession(thread_id, active_sessions)
       THEN /\ response' = Response(400, "", <<"Invalid session">>, 0, NoneKw)
            /\ UNCHANGED in_flight
       ELSE IF InvalidAction(action)
       THEN /\ response' = Response(400, "", <<"Invalid action">>, 0, NoneKw)
            /\ UNCHANGED in_flight
       ELSE /\ in_flight' = in_flight \cup
                   {InFlightCall(served + 1, thread_id, action, keywords,
                                 checkpoints[thread_id])}
            /\ UNCHANGED response

\* the graph run of an in-flight call comes back and the handler stores the
\* result and answers
EndValidateKeywords(c, o) ==
    LET run == InvokeResume(c.cp, ResumeValue(c.action, c.keywords), o)
    IN  /\ c \in in_flight
        /\ in_flight' = in_flight \ {c}
        /\ UNCHANGED <<served, graph_app, savers, callers, routed>>
        /\ request' = [NoRequest EXCEPT !.kind = "resume",
                                        !.thread_id = c.thread_id,
                                        !.action = c.action,
                                        !.keywords = c.keywords]
        /\ ResumeWrites(c.thread_id, c.action, c.cp, run)

BeginResume ==
    \E thread_id \in RequestIds, action \in Actions :
        \E keywords \in IF action = "edit"
                             /\ ~InvalidSession(thread_id, active_sessions)
                          THEN EditPayloads ELSE {EmptyDict} :
            BeginValidateKeywords(thread_id, action, keywords)

\* the outcomes the stages reachable from the loaded checkpoint consult
InFlightOutcomes(c) ==
    IF c.cp.status \notin {"interrupted", "raised"}
    THEN {[ce |-> "ok", kg |-> "s1", enh |-> "ok", ipc |-> "api",
           qg |-> "toolcall"]}
    ELSE IF \/ c.cp.next = "keyword_generation"
            \/ (c.cp.next = "human_validation" /\ c.action = "reject")
    THEN {o \in Outcomes : o.ce = "ok" /\ o.enh = "ok" /\ o.ipc = "api"
                           /\ o.qg = "toolcall"}
    ELSE {o \in Outcomes : o.ce = "ok" /\ o.kg = "s1"}

EndResume ==
    \E c \in in_flight : \E o \in InFlightOutcomes(c) :
        EndValidateKeywords(c, o)

NextConc == Start \/ BeginResume \/ EndResume

SpecConc == Init /\ [][NextConc]_vars


\* ------------------------------------------- overlapping get_graph calls
\* A fifth specification in which get_graph() is not atomic: start_search
\* calls it from the request's own server thread, and the test of the global,
\* the creation of the graph and the return are separate steps that the
\* calls of two threads can interleave. validate_keywords reaches get_graph
\* only for an id that a finished start_search handed out, so it always
\* finds the global set and only reads it. The start calls of this
\* specification carry a description (an empty one is answered before
\* get_graph is called).
Calling == {w \in Workers : callers[w].pc # "idle"}

\* if graph_app is None:
GetGraphTest(w) ==
    /\ callers[w].pc = "idle"
    /\ served + Cardinality(Calling) < MaxCalls
    /\ Len(active_sessions) + Cardinality(Calling) < MaxSessions
    /\ callers' = [callers EXCEPT ![w].pc =
                      IF graph_app = 0 THEN "create" ELSE "return"]
    /\ UNCHANGED <<active_sessions, checkpoints, history, request, response,
                   served, in_flight, graph_app, savers, routed>>

\* graph_app = create_graph(): a new graph with an InMemorySaver of its own
GetGraphCreate(w) ==
    /\ callers[w].pc = "create"
    /\ graph_app' = Len(savers) + 1
    /\ savers' = Append(savers, {})
    /\ callers' = [callers EXCEPT ![w].pc = "return"]
    /\ UNCHANGED <<active_sessions, checkpoints, history, request, response,
                   served, in_flight, routed>>

\* return graph_app
GetGraphReturn(w) ==
    /\ callers[w].pc = "return"
    /\ callers' = [callers EXCEPT
                   ![w] = [pc |-> "got", app_instance |-> graph_app]]
    /\ UNCHANGED <<active_sessions, checkpoints, history, request, response,
                   served, in_flight, graph_app, savers, routed>>

\* the rest of start_search on the instance get_graph returned
StartSearchWith(w, raw, max_results, o) ==
    /\ callers[w].pc = "got"
    /\ StartSearchOn([app_instance |-> callers[w].app_instance,
                      graph_app |-> graph_app, savers |-> savers],
                     raw, max_results, o)
    /\ callers' = [callers EXCEPT ![w] = Idle]

TestGraph == \E w \in Workers : GetGraphTest(w)
CreateGraph == \E w \in Workers : GetGraphCreate(w)
ReturnGraph == \E w \in Workers : GetGraphReturn(w)

StartWith ==
    \E w \in Workers, raw \in {r \in RawDescriptions : Strip(r) # ""},
       max_results \in MaxResultsInputs, ce \in CeOutcomes,
       kg \in KgOutcomes :
        StartSearchWith(w, raw, max_results,
                        [ce |-> ce, kg |-> kg, enh |-> "ok", ipc |-> "api",
                         qg |-> "toolcall"])

NextGraph == TestGraph \/ CreateGraph \/ ReturnGraph \/ StartWith \/ Resume

SpecGraph == Init /\ [][NextGraph]_vars


\* ------------------------------------------------------ routing functions
\* A sixth specification for the two routing functions of graph.py, which
\* the default graph leaves unwired: each is applied to a state dict drawn
\* from RouteStates.
Return(route) == [kind |-> "return", value |-> route]
Raised(e) == [kind |-> "raise", value |-> e]

\* PatentSearchResults(patents=v, total_found=len(v), ...)
PatentSearchResults(v) == [py |-> "PatentSearchResults", v |-> v]

\* faulty variant: any search_results key that is present continues
ShouldContinueWorkflowAnyPresent(state) ==
    IF state.search_results.py = "list"
    THEN Return("evaluation")
    ELSE IF state.search_results.py = "None"
    THEN Return("__end__")
    ELSE Raised("TypeError")

\* state.get("validated_keywords", False) is False when the key is absent;
\* False, None and a dict have no attribute problem_purpose
ShouldContinueValidation(state) ==
    LET validated_keywords == state.validated_keywords
    IN  IF validated_keywords.py # "SeedKeywords"
        THEN Raised("AttributeError")
        ELSE IF /\ validated_keywords.problem_purpose # <<>>
                /\ validated_keywords.object_system # <<>>
                /\ validated_keywords.environment_field # <<>>
        THEN Return("enhancement")
        ELSE Return("keyword_generation")

\* the elif repeats the if's condition and is never taken; len() of an
\* object that is no sequence raises
ShouldContinueWorkflow(state) ==
    LET search_results == state.search_results
        truthy == search_results.py = "PatentSearchResults"
                  \/ (search_results.py = "list" /\ search_results.v # <<>>)
    IN  IF truthy /\ search_results.py # "list"
        THEN Raised("TypeError")
        ELSE IF truthy /\ Len(search_results.v) > 0
        THEN Return("evaluation")
        ELSE Return("__end__")

\* the states the functions are applied to: validated_keywords absent, a
\* dict as human validation stores it, or a SeedKeywords object (whose
\* fields can be assigned an empty list after construction); a
\* validation_complete key as the callers of tests/ and examples/ pass it;
\* search_results absent, a list as patent_search returns it, or an object
RouteKeywords ==
    {NoneKw, EmptyDict, AsDict(Seed1),
     KwDict({"problem_purpose"}, <<"x">>, <<>>, <<>>),
     Seed1, Seed2,
     SeedKeywords(<<>>, <<"o1">>, <<"e1">>),
     SeedKeywords(<<"p1">>, <<>>, <<"e1">>),
     SeedKeywords(<<"p1">>, <<"o1">>, <<>>)}

RouteResults ==
    {NoneList, PyList(<<>>), PyList(<<"r1">>), PyList(<<"r1", "r2">>),
     PatentSearchResults(<<>>), PatentSearchResults(<<"r1">>)}

RouteStates ==
    [validated_keywords : RouteKeywords,
     validation_complete : {"absent", "True", "False"},
     search_results : RouteResults]

InitRoute ==
    /\ active_sessions = <<>>
    /\ checkpoints = [t \in ThreadIds |-> NoCheckpoint]
    /\ history = [t \in ThreadIds |-> NoHistory]
    /\ request = NoRequest
    /\ response = NoResponse
    /\ served = 0
    /\ in_flight = {}
    /\ graph_app = 0
    /\ savers = <<>>
    /\ callers = [w \in Workers |-> Idle]
    /\ \E state \in RouteStates : routed = [NoRoute EXCEPT !.state = state]

RouteValidation ==
    /\ routed' = [routed EXCEPT !.fn = "should_continue_validation",
                                !.result = ShouldContinueValidation(routed.state)]
    /\ UNCHANGED <<active_sessions, checkpoints, history, request, response,
                   served, in_flight, graph_app, savers, callers>>

RouteWorkflow ==
    /\ routed' = [routed EXCEPT !.fn = "should_continue_workflow",
                                !.result = ShouldContinueWorkflow(routed.state)]
    /\ UNCHANGED <<active_sessions, checkpoints, history, request, response,
                   served, in_flight, graph_app, savers, callers>>

NextRoute == RouteValidation \/ RouteWorkflow

SpecRoute == InitRoute /\ [][NextRoute]_vars


\* ================================================================ claims
\* session t exists and its graph is interrupted at human_validation
Suspended(t) ==
    /\ t \in DOMAIN active_sessions
    /\ checkpoints[t].status = "interrupted"
    /\ checkpoints[t].next = "human_validation"

\* the step being taken serves a resume request for thread t with `action`
ResumeStep(t, action) ==
    /\ served' = served + 1
    /\ request'.kind = "resume"
    /\ request'.thread_id = t
    /\ request'.action = action

IsSet(v) == v.py # "None"
Last(seq) == seq[Len(seq)]

\* the stages this step ran for thread t
StagesRun(t) ==
    SubSeq(history'[t].stages, Len(history[t].stages) + 1,
           Len(history'[t].stages))

\* --- C1 ---------------------------------------------------------------
\* C1: a resume with action accept on a session suspended at human
\* validation sets validated_keywords to seed_keywords in all three
\* categories, and the stage run right after human validation is
\* enhancement.
C1_AcceptCopiesSeed ==
    [][\A t \in ThreadIds :
          (Suspended(t) /\ ResumeStep(t, "accept")) =>
              LET seed == checkpoints[t].values.seed_keywords
                  validated == checkpoints'[t].values.validated_keywords
              IN  /\ Truthy(seed)
                  /\ validated.py = "dict"
                  /\ validated.keys = Categories
                  /\ \A cat \in Categories : validated[cat] = seed[cat]
                  /\ Len(StagesRun(t)) >= 2
                  /\ StagesRun(t)[1] = "human_validation"
                  /\ StagesRun(t)[2] = "enhancement"]_vars

C1_Witness ==
    \E t \in DOMAIN active_sessions :
        /\ request.kind = "resume"
        /\ request.thread_id = t
        /\ request.action = "accept"
        /\ history[t].resolved = <<"accept">>
        /\ checkpoints[t].values.validated_keywords.problem_purpose
               = <<"p1", "p2", "p3">>
        /\ Count(history[t].stages, "enhancement") = 1

\* --- C2 ---------------------------------------------------------------
\* C2: a resume with action edit yields validated_keywords in which every
\* category the payload omits equals the seed_keywords category and every
\* supplied category equals the supplied list; the next stage is enhancement.
C2_EditDefaultsOmitted ==
    [][\A t \in ThreadIds :
          (Suspended(t) /\ ResumeStep(t, "edit")) =>
              LET seed == checkpoints[t].values.seed_keywords
                  payload == request'.keywords
                  validated == checkpoints'[t].values.validated_keywords
              IN  /\ validated.keys = Categories
                  /\ \A cat \in Categories :
                        validated[cat] = IF cat \in payload.keys
                                         THEN payload[cat]
                                         ELSE seed[cat]
                  /\ Len(StagesRun(t)) >= 2
                  /\ StagesRun(t)[2] = "enhancement"]_vars

\* --- C3 ---------------------------------------------------------------
\* C3: a resume with action reject leaves validated_keywords unset, runs
\* keyword generation once more (one fresh call of the operation, whose
\* result replaces seed_keywords) and suspends again at human validation;
\* after k consecutive rejects the keyword-generation operation has been
\* called k + 1 times and the concept-extraction operation once.
OnlyRejects(resolved) == \A i \in 1..Len(resolved) : resolved[i] = "reject"

C3_RejectRegenerates ==
    [][\A t \in ThreadIds :
          (Suspended(t) /\ ResumeStep(t, "reject")) =>
              /\ ~IsSet(checkpoints'[t].values.validated_keywords)
              /\ StagesRun(t) = <<"human_validation", "keyword_generation",
                                  "human_validation">>
              /\ history'[t].kg_calls = history[t].kg_calls + 1
              /\ Suspended(t)'
              /\ OnlyRejects(history'[t].resolved) =>
                    /\ history'[t].kg_calls = Len(history'[t].resolved) + 1
                    /\ history'[t].ce_calls = 1]_vars

\* --- C4 ---------------------------------------------------------------
\* C4: a resume on a suspended session whose action tag is not accept, edit
\* or reject fails with an error that names the unknown tag and leaves the
\* session suspended with every state field unchanged.
NamesTag(error, tag) == \E i \in 1..Len(error) : error[i] = tag

C4_UnknownTagNamed ==
    [][\A t \in ThreadIds :
          (Suspended(t) /\ ResumeStep(t, "bogus")) =>
              /\ response'.code >= 400
              /\ NamesTag(response'.error, "bogus")
              /\ Suspended(t)'
              /\ checkpoints'[t] = checkpoints[t]
              /\ active_sessions'[t] = active_sessions[t]
              /\ history'[t] = history[t]]_vars

\* --- C5 ---------------------------------------------------------------
\* C5: once a resume with accept or edit has moved a session past human
\* validation, a second resume with the same action is rejected with an
\* error and changes nothing: no stage runs and no state field changes.
C5_SecondResumeRejected ==
    [][\A t \in ThreadIds, action \in {"accept", "edit"} :
          (/\ t \in DOMAIN active_sessions
           /\ history[t].resolved # <<>>
           /\ Last(history[t].resolved) = action
           /\ ResumeStep(t, action)) =>
              /\ response'.code >= 400
              /\ checkpoints'[t] = checkpoints[t]
              /\ active_sessions'[t] = active_sessions[t]
              /\ history'[t] = history[t]]_vars

\* --- C6 ---------------------------------------------------------------
\* C6: a resume that names a thread id for which no session was started is
\* answered with the invalid-session error, runs no stage and creates or
\* changes no session entry and no checkpoint.
C6_UnknownSessionRejected ==
    [][(/\ served' = served + 1
        /\ request'.kind = "resume"
        /\ request'.thread_id \notin DOMAIN active_sessions) =>
            /\ response'.code = 400
            /\ response'.error = <<"Invalid session">>
            /\ active_sessions' = active_sessions
            /\ checkpoints' = checkpoints
            /\ history' = history]_vars

C6_Witness ==
    /\ request.kind = "resume"
    /\ request.thread_id = Len(active_sessions) + 1
    /\ Len(active_sessions) >= 1
    /\ response.error = <<"Invalid session">>


\* --- C7 ---------------------------------------------------------------
\* C7: when human validation is entered with seed_keywords absent the run
\* does not suspend, exactly one error is appended, validated_keywords
\* becomes the empty structure, and the run continues with enhancement.
C7_SeedAbsentContinues ==
    [][\A t \in ThreadIds :
          (/\ checkpoints[t].status = "pending"
           /\ checkpoints[t].next = "human_validation"
           /\ ~Truthy(checkpoints[t].values.seed_keywords)
           /\ checkpoints'[t].status # "pending") =>
              /\ checkpoints'[t].status # "interrupted"
              /\ Len(checkpoints'[t].values.errors)
                     = Len(checkpoints[t].values.errors) + 1
              /\ IsPrefix(checkpoints[t].values.errors,
                          checkpoints'[t].values.errors)
              /\ checkpoints'[t].values.validated_keywords = EmptyDict
              /\ IsPrefix(<<"human_validation", "enhancement">>,
                          StagesRun(t))]_vars

\* --- C8 ---------------------------------------------------------------
\* C8: in every state of every session the populated fields respect the
\* production order concept_matrix, seed_keywords, validated_keywords,
\* enhanced_keywords, ipc_codes, search_queries: a populated field has every
\* earlier field populated; validated_keywords is never set while
\* seed_keywords is unset.
ProductionOrder ==
    <<"concept_matrix", "seed_keywords", "validated_keywords",
      "enhanced_keywords", "ipc_codes", "search_queries">>

OrderedFields(values) ==
    \A i, j \in 1..Len(ProductionOrder) :
        (i < j /\ IsSet(values[ProductionOrder[j]])) =>
            IsSet(values[ProductionOrder[i]])

C9_SuspendedUntilResume ==
    [][\A t \in ThreadIds :
          /\ (/\ Suspended(t)
              /\ ~\E a \in {"accept", "edit", "reject"} : ResumeStep(t, a)) =>
                 /\ checkpoints'[t] = checkpoints[t]
                 /\ history'[t] = history[t]
                 /\ active_sessions'[t] = active_sessions[t]
          /\ Count(StagesRun(t), "enhancement") > 0 =>
                 \E i \in 1..Len(history'[t].resolved) :
                     history'[t].resolved[i] \in {"accept", "edit"}]_vars

C9_Witness ==
    /\ Suspended(1)
    /\ history[1].stages = <<"concept_extraction", "keyword_generation",
                             "human_validation">>
    /\ request.kind = "resume"
    /\ request.thread_id = 2
    /\ Count(history[2].stages, "enhancement") > 0

\* --- C10 --------------------------------------------------------------
\* C10: a start call with a non-empty description runs concept extraction
\* and then keyword generation; it answers waiting_validation with the new
\* session id and the seed keywords, the session being suspended at human
\* validation, or it answers with an error; it never reports success with
\* the run stopped anywhere else.
C10_StartSuspendsOrFails ==
    (request.kind = "start" /\ Strip(request.patent_description) # "") =>
        LET t == Len(active_sessions)
        IN  /\ t >= 1
            /\ IsPrefix(<<"concept_extraction", "keyword_generation">>,
                        history[t].stages)
            /\ IF response.code = 200
               THEN /\ response.status = "waiting_validation"
                    /\ response.thread_id = t
                    /\ Suspended(t)
                    /\ history[t].stages =
                           <<"concept_extraction", "keyword_generation",
                             "human_validation">>
                    /\ Truthy(checkpoints[t].values.seed_keywords)
                    /\ response.seed_keywords =
                           AsDict(checkpoints[t].values.seed_keywords)
               ELSE /\ response.code >= 400
                    /\ response.error # <<>>
                    /\ response.status = ""

C10_Witness ==
    /\ request.kind = "start"
    /\ response.code = 200
    /\ response.thread_id = 2
    /\ Suspended(2)
    /\ response.seed_keywords.object_system = <<"o1", "o2", "o3">>

\* --- C11 --------------------------------------------------------------
\* C11: a resume with accept or edit on a suspended session runs
\* enhancement, ipc_classification and query_generation and ends the run
\* within that call, whatever the external operations do: no stage raises.
C11_ResumeReachesTerminal ==
    [][\A t \in ThreadIds :
          (/\ Suspended(t)
           /\ \E a \in {"accept", "edit"} : ResumeStep(t, a)) =>
              /\ checkpoints'[t].status = "done"
              /\ checkpoints'[t].next = "__end__"
              /\ StagesRun(t) = <<"human_validation", "enhancement",
                                  "ipc_classification",
                                  "query_generation">>]_vars

\* --- C12 --------------------------------------------------------------
\* C12: whenever keyword generation runs, it returns a state with
\* seed_keywords populated and the run goes on to suspend at human
\* validation; when the operation failed the seed is the fallback
\* placeholder in all three categories and exactly one error was appended.
C12_KgFallbackSuspends ==
    [][\A t \in ThreadIds :
          Count(StagesRun(t), "keyword_generation") > 0 =>
              LET seed == checkpoints'[t].values.seed_keywords
              IN  /\ Suspended(t)'
                  /\ Last(StagesRun(t)) = "human_validation"
                  /\ seed.py = "SeedKeywords"
                  /\ \/ \E k \in DOMAIN LlmSeeds :
                           /\ seed = LlmSeeds[k]
                           /\ seed # checkpoints[t].values.seed_keywords
                     \/ /\ \A cat \in Categories : Len(seed[cat]) >= MinItems
                        /\ Count(checkpoints'[t].values.errors,
                                 "Error in keyword generation")
                             = Count(checkpoints[t].values.errors,
                                     "Error in keyword generation") + 1]_vars

\* --- C13 --------------------------------------------------------------
\* C13: whenever enhancement runs, it returns a state and the run goes on
\* to ipc_classification; when the enhancement operation failed for a
\* keyword, enhanced_keywords equals validated_keywords unchanged and one
\* error was appended.
C13_EnhancementFallback ==
    [][\A t \in ThreadIds :
          Count(StagesRun(t), "enhancement") > 0 =>
              LET validated == checkpoints'[t].values.validated_keywords
                  enhanced == checkpoints'[t].values.enhanced_keywords
              IN  /\ Count(StagesRun(t), "ipc_classification") > 0
                  /\ IsSet(enhanced)
                  /\ \/ /\ enhanced.keys = Categories
                        /\ \A cat \in Categories :
                              enhanced[cat] = EnhancedCategory(validated, cat)
                     \/ /\ enhanced = validated
                        /\ Len(checkpoints'[t].values.errors)
                             = Len(checkpoints[t].values.errors) + 1]_vars

C15_IpcCodesNonEmpty ==
    \A t \in ThreadIds :
        Count(history[t].stages, "ipc_classification") > 0 =>
            /\ checkpoints[t].values.ipc_codes.py = "list"
            /\ Len(checkpoints[t].values.ipc_codes.v) >= 1

\* the lookup gave nothing and the keyword table matched nothing
C15_Witness ==
    \E t \in DOMAIN active_sessions :
        /\ Count(history[t].stages, "ipc_classification") > 0
        /\ checkpoints[t].values.ipc_codes = PyList(<<"G06F">>)

\* --- C16 --------------------------------------------------------------
\* C16: concept_matrix is populated once concept extraction has run, and
\* the run goes on to keyword generation; when the operation failed the
\* matrix is the fixed fallback matrix and exactly one error was appended.
C16_ConceptFallback ==
    [][\A t \in ThreadIds :
          /\ Count(history'[t].stages, "concept_extraction") > 0 =>
                 IsSet(checkpoints'[t].values.concept_matrix)
          /\ Count(StagesRun(t), "concept_extraction") > 0 =>
                 LET after == checkpoints'[t].values
                 IN  /\ IsPrefix(<<"concept_extraction",
                                   "keyword_generation">>, StagesRun(t))
                     /\ \/ /\ after.concept_matrix = LlmConceptMatrix
                           /\ Count(after.errors,
                                    "Error in concept extraction") = 0
                        \/ /\ after.concept_matrix =
                                  ConceptMatrix(InventionPurpose,
                                                TechnicalSystem,
                                                TechnologyField)
                           /\ Count(after.errors,
                                    "Error in concept extraction") = 1]_vars

C16_Witness ==
    \E t \in DOMAIN active_sessions :
        /\ checkpoints[t].values.concept_matrix.problem_purpose
               = InventionPurpose
        /\ checkpoints[t].values.errors = <<"Error in concept extraction">>
        /\ Suspended(t)

C18_ErrorsAppendOnly ==
    [][\A t \in ThreadIds :
          /\ IsPrefix(checkpoints[t].values.errors,
                      checkpoints'[t].values.errors)
          /\ history'[t].errors_kept
          /\ (t \in DOMAIN active_sessions) =>
                 IsPrefix(active_sessions[t].current_state.values.errors,
                          active_sessions'[t].current_state.values.errors)
      ]_vars

\* a later stage added its error behind the one of an earlier stage
C18_Witness ==
    \E t \in DOMAIN active_sessions :
        /\ checkpoints[t].values.errors =
               <<"Error in concept extraction", "Error in query generation">>
        /\ history[t].errors_kept
        /\ checkpoints[t].status = "done"

\* --- C19 --------------------------------------------------------------
\* C19: for one thread id there are never two in-flight mutations: calls
\* for the same session are serialized, so no two calls whose graph runs
\* overlap write the session's entry.
C19_CallsSerialized ==
    \A c1, c2 \in in_flight :
        c1.thread_id = c2.thread_id => c1 = c2

\* --- C20 --------------------------------------------------------------
\* C20: patent_description and max_results keep the values the session was
\* created with: the session entry never changes them, and the graph's
\* stored state and every result handed back, the final one included, carry
\* them.
C20_InputsImmutable ==
    [][\A t \in DOMAIN active_sessions' :
          LET entry == active_sessions'[t]
          IN  /\ (t \in DOMAIN active_sessions) =>
                    /\ entry.patent_description
                           = active_sessions[t].patent_description
                    /\ entry.max_results = active_sessions[t].max_results
              /\ checkpoints'[t].values.patent_description
                     = entry.patent_description
              /\ checkpoints'[t].values.max_results = entry.max_results
              /\ entry.current_state.py = "dict" =>
                    /\ entry.current_state.values.patent_description
                           = entry.patent_description
                    /\ entry.current_state.values.max_results
                           = entry.max_results]_vars

\* a run that ended after an edit still carries the inputs
C20_Witness ==
    \E t \in DOMAIN active_sessions :
        /\ checkpoints[t].status = "done"
        /\ history[t].resolved = <<"edit">>
        /\ Last(history[t].stages) = "query_generation"
        /\ active_sessions[t].current_state.values.patent_description = "d1"
        /\ active_sessions[t].current_state.values.max_results = 10

\* --- C21 --------------------------------------------------------------
\* C21: should_continue_validation returns a route name for every state and
\* never raises: "enhancement" when all three categories of
\* validated_keywords are filled, "human_validation" otherwise, a state
\* without validated_keywords included.
AllCategoriesFilled(kw) ==
    IsSet(kw) /\ \A cat \in Categories : DictGet(kw, cat) # <<>>

C21_ValidationRouteTotal ==
    routed.fn = "should_continue_validation" =>
        /\ routed.result.kind = "return"
        /\ routed.result.value =
               IF AllCategoriesFilled(routed.state.validated_keywords)
               THEN "enhancement"
               ELSE "human_validation"

C23_EnhancedFlat ==
    \A t \in ThreadIds :
        LET values == checkpoints[t].values
            validated == values.validated_keywords
            enhanced == values.enhanced_keywords
        IN  IsSet(enhanced) =>
                /\ \A cat \in Categories :
                      /\ \A i \in 1..Len(enhanced[cat]) :
                            IsStrItem(enhanced[cat][i])
                      /\ \A k \in 1..Len(DictGet(validated, cat)) :
                            \E i \in 1..Len(enhanced[cat]) :
                                enhanced[cat][i] =
                                    StrItem(DictGet(validated, cat)[k])
                      /\ \A j \in 1..Len(EnhancedTerms(DictGet(validated, cat))) :
                            \E i \in 1..Len(enhanced[cat]) :
                                enhanced[cat][i] =
                                    EnhancedTerms(DictGet(validated, cat))[j]
                /\ FormatKeywordsDataOk(enhanced)

\* --- C24 --------------------------------------------------------------
\* C24: whenever the classification lookup fails and ipc_classification
\* falls back to the keyword heuristic, the run appends a description of
\* that failure to errors, as the other stages do for theirs.
OtherStageErrors ==
    {"Error in concept extraction", "Error in keyword generation",
     "No seed keywords found for validation", "Enhancement error",
     "Error in query generation"}

C24_IpcFallbackRecorded ==
    [][\A t \in ThreadIds :
          LET before == checkpoints[t].values.errors
              after == checkpoints'[t].values
          IN  (/\ Count(StagesRun(t), "ipc_classification") > 0
               /\ after.ipc_codes # PyList(ApiIpcCodes))
              => \E i \in (Len(before) + 1)..Len(after.errors) :
                    after.errors[i] \notin OtherStageErrors]_vars

\* --- C25 --------------------------------------------------------------
\* C25: the stages of a session run in the order concept_extraction,
\* keyword_generation, human_validation, any number of (keyword_generation,
\* human_validation), enhancement, ipc_classification, query_generation and
\* then the end; patent_search and evaluation never run and search_results
\* and final_results are never populated.
StageStep(q, stage) ==
    CASE q = 0 /\ stage = "concept_extraction" -> 1
      [] q = 1 /\ stage = "keyword_generation" -> 2
      [] q = 2 /\ stage = "human_validation" -> 3
      [] q = 3 /\ stage = "human_validation" -> 3   \* resumed where it waits
      [] q = 3 /\ stage = "keyword_generation" -> 2
      [] q = 3 /\ stage = "enhancement" -> 4
      [] q = 4 /\ stage = "ipc_classification" -> 5
      [] q = 5 /\ stage = "query_generation" -> 6
      [] OTHER -> 7

RECURSIVE StageRun(_, _)
StageRun(q, stages) ==
    IF stages = <<>> THEN q
    ELSE StageRun(StageStep(q, Head(stages)), Tail(stages))

C25_StageOrder ==
    \A t \in ThreadIds :
        /\ StageRun(0, history[t].stages) # 7
        /\ checkpoints[t].status = "done" =>
               StageRun(0, history[t].stages) \in {0, 6}
        /\ ~ResultHas(checkpoints[t].values, "search_results")
        /\ ~ResultHas(checkpoints[t].values, "final_results")

\* --- C26 --------------------------------------------------------------
\* C26: sessions are isolated: a start or resume call for one session never
\* changes the checkpoint (stage and workflow state), the stages run or the
\* stored entry of any other session, however the calls interleave.
CalledSession ==
    IF request'.kind = "start"
    THEN Len(active_sessions) + 1
    ELSE request'.thread_id

C26_SessionsIsolated ==
    [][\A b \in ThreadIds :
          b # CalledSession =>
              /\ checkpoints'[b] = checkpoints[b]
              /\ history'[b] = history[b]
              /\ b \in DOMAIN active_sessions =>
                     /\ b \in DOMAIN active_sessions'
                     /\ active_sessions'[b] = active_sessions[b]]_vars

C26_Witness ==
    \E a, b \in DOMAIN active_sessions :
        /\ a # b
        /\ Suspended(b)
        /\ request.kind = "resume"
        /\ request.thread_id = a
        /\ history[a].resolved # <<>>
        /\ checkpoints[a] # checkpoints[b]

\* --- C27 --------------------------------------------------------------
\* C27: when a resume call drives the workflow to its end with
\* search_queries populated, validate_keywords sets the session's
\* workflow_complete flag and answers with status complete; it answers
\* waiting_validation only when the session is suspended again at human
\* validation.
C27_CompleteReported ==
    [][\A t \in DOMAIN active_sessions :
          (served' = served + 1 /\ request'.kind = "resume"
           /\ request'.thread_id = t) =>
              /\ (/\ checkpoints'[t] # checkpoints[t]
                  /\ checkpoints'[t].status = "done"
                  /\ IsSet(checkpoints'[t].values.search_queries))
                 => /\ active_sessions'[t].workflow_complete
                    /\ response'.status = "complete"
              /\ response'.status = "waiting_validation" => Suspended(t)']_vars

\* --- C28 --------------------------------------------------------------
\* C28: a session id passes the session check of validate_keywords only if
\* its start_search call reached the human-validation suspend point: a start
\* whose graph execution fails leaves no entry in active_sessions, and a
\* later resume on that id is rejected as an invalid session and runs no
\* stage.
ReachedSuspendPoint(t) == Count(history[t].stages, "human_validation") > 0

C28_FailedStartLeavesNoSession ==
    [][/\ \A t \in DOMAIN active_sessions' : ReachedSuspendPoint(t)'
       /\ \A t \in ThreadIds :
             (/\ served' = served + 1
              /\ request'.kind = "resume"
              /\ request'.thread_id = t
              /\ ~ReachedSuspendPoint(t))
             => /\ response'.code = 400
                /\ response'.error = <<"Invalid session">>
                /\ StagesRun(t) = <<>>]_vars

\* --- C30 --------------------------------------------------------------
\* C30: the human_validation step that resolves a resume instruction changes
\* only validated_keywords and messages (accept, edit) or only messages
\* (reject): seed_keywords, concept_matrix, enhanced_keywords, ipc_codes,
\* search_queries and errors are the same right after the step as before
\* it, and exactly one message is appended per resolved instruction.
FrameFields ==
    {"seed_keywords", "concept_matrix", "enhanced_keywords", "ipc_codes",
     "search_queries", "errors"}

C30_ValidationFrame ==
    \A t \in ThreadIds :
        /\ Len(history[t].hv_steps) = Len(history[t].resolved)
        /\ \A i \in 1..Len(history[t].hv_steps) :
              LET step == history[t].hv_steps[i]
              IN  /\ \A f \in FrameFields : step.after[f] = step.before[f]
                  /\ IsPrefix(step.before.messages, step.after.messages)
                  /\ Len(step.after.messages)
                         = Len(step.before.messages) + 1
                  /\ history[t].resolved[i] = "reject" =>
                         step.after.validated_keywords
                             = step.before.validated_keywords

C30_Witness ==
    \E t \in ThreadIds :
        /\ history[t].resolved = <<"reject", "accept">>
        /\ Len(history[t].hv_steps) = 2
        /\ history[t].hv_steps[1].goto = "keyword_generation"
        /\ history[t].hv_steps[2].goto = "enhancement"
        /\ history[t].hv_steps[2].after.validated_keywords
               # history[t].hv_steps[2].before.validated_keywords

====
